---------------------------- MODULE Spec2Model ----------------------------
(***************************************************************************)
(* Model of Zakon_Zipfa.py: word extraction, frequency ranking, the        *)
(* least-squares fit of F = C / R, and the interactive driver around them. *)
(*                                                                         *)
(* Characters are Unicode code points (integers), strings are sequences    *)
(* of code points.  Python floats are modelled by exact signed rationals   *)
(* <<p, n, d>>, standing for (p - n) / d, over arbitrary-precision         *)
(* naturals (little-endian sequences of limbs), because the values of      *)
(* the fit do not fit a machine integer of the model checker.  What the    *)
(* program prints and plots is not part of the state.                      *)
(***************************************************************************)
EXTENDS Integers, Sequences, FiniteSets, TLC

VARIABLES pc, text, words, top_n, ret, argv, folder, files, paths, results, err

vars == <<pc, text, words, top_n, ret, argv, folder, files, paths, results, err>>

(***************************************************************************)
(* Arbitrary-precision naturals: the arithmetic of Python's numbers.       *)
(***************************************************************************)
BigBase == 10 ^ 4

RECURSIVE BigOf(_)
BigOf(n) == IF n = 0 THEN <<>> ELSE <<n % BigBase>> \o BigOf(n \div BigBase)

BigLimb(a, i) == IF i \in 1..Len(a) THEN a[i] ELSE 0

\* without the leading zero limbs
BigTrim(a) ==
    LET top == {i \in 1..Len(a) : a[i] # 0 /\ \A j \in (i + 1)..Len(a) : a[j] = 0}
    IN  IF top = {} THEN <<>> ELSE SubSeq(a, 1, CHOOSE i \in top : TRUE)

\* a + b: limb i takes a carry when a lower limb overflows and every limb
\* between passes the carry on
BigAdd(a, b) ==
    LET n        == (IF Len(a) > Len(b) THEN Len(a) ELSE Len(b)) + 1
        sum(i)   == BigLimb(a, i) + BigLimb(b, i)
        carry(i) == \E j \in 1..(i - 1) :
                        sum(j) >= BigBase /\ \A k \in (j + 1)..(i - 1) : sum(k) = BigBase - 1
    IN  BigTrim([i \in 1..n |-> (sum(i) + (IF carry(i) THEN 1 ELSE 0)) % BigBase])

\* a - b for a >= b
BigSub(a, b) ==
    LET borrow(i) == \E j \in 1..(i - 1) :
                         BigLimb(a, j) < BigLimb(b, j)
                             /\ \A k \in (j + 1)..(i - 1) : BigLimb(a, k) = BigLimb(b, k)
    IN  BigTrim([i \in 1..Len(a) |->
                    (a[i] - BigLimb(b, i) - (IF borrow(i) THEN 1 ELSE 0) + BigBase) % BigBase])

\* -1, 0, 1 as a < b, a = b, a > b (a and b without leading zero limbs)
BigCmp(a, b) ==
    IF Len(a) # Len(b) THEN (IF Len(a) < Len(b) THEN -1 ELSE 1)
    ELSE IF a = b THEN 0
    ELSE LET h == CHOOSE i \in 1..Len(a) : a[i] # b[i] /\ \A j \in (i + 1)..Len(a) : a[j] = b[j]
         IN  IF a[h] < b[h] THEN -1 ELSE 1

\* a * d for one limb d
BigMulSmall(a, d) ==
    BigAdd([i \in 1..Len(a) |-> (a[i] * d) % BigBase],
           <<0>> \o [i \in 1..Len(a) |-> (a[i] * d) \div BigBase])

BigShift(a, k) == IF a = <<>> THEN <<>> ELSE [i \in 1..k |-> 0] \o a

RECURSIVE BigMul(_, _)
BigMul(a, b) ==
    IF a = <<>> \/ b = <<>> THEN <<>>
    ELSE IF Len(b) = 1 THEN BigMulSmall(a, b[1])
    ELSE LET h == Len(b) \div 2
         IN  BigAdd(BigMul(a, SubSeq(b, 1, h)),
                    BigShift(BigMul(a, SubSeq(b, h + 1, Len(b))), h))

(***************************************************************************)
(* Rationals <<p, n, d>> standing for (p - n) / d, with d > 0 and one of   *)
(* p, n zero; not reduced.  Equality and order are decided on the          *)
(* difference.                                                             *)
(***************************************************************************)
RatNorm(p, n, d) ==
    IF BigCmp(p, n) >= 0
    THEN <<BigSub(p, n), <<>>, d>>
    ELSE <<<<>>, BigSub(n, p), d>>

RatOfInt(k) == IF k >= 0 THEN <<BigOf(k), <<>>, BigOf(1)>> ELSE <<<<>>, BigOf(-k), BigOf(1)>>

RatZero == RatOfInt(0)

RatIsZero(x) == x[1] = <<>> /\ x[2] = <<>>

RatIsNeg(x) == x[2] # <<>>

RatNeg(x) == <<x[2], x[1], x[3]>>

RatAdd(x, y) ==
    RatNorm(BigAdd(BigMul(x[1], y[3]), BigMul(y[1], x[3])),
            BigAdd(BigMul(x[2], y[3]), BigMul(y[2], x[3])),
            BigMul(x[3], y[3]))

RatSub(x, y) == RatAdd(x, RatNeg(y))

RatMul(x, y) ==
    RatNorm(BigAdd(BigMul(x[1], y[1]), BigMul(x[2], y[2])),
            BigAdd(BigMul(x[1], y[2]), BigMul(x[2], y[1])),
            BigMul(x[3], y[3]))

\* x / y for y # 0
RatDiv(x, y) ==
    IF y[2] = <<>>
    THEN <<BigMul(x[1], y[3]), BigMul(x[2], y[3]), BigMul(x[3], y[1])>>
    ELSE <<BigMul(x[2], y[3]), BigMul(x[1], y[3]), BigMul(x[3], y[2])>>

RatEq(x, y) == RatIsZero(RatSub(x, y))

RatLess(x, y) == RatIsNeg(RatSub(x, y))

RatLeq(x, y) == ~RatIsNeg(RatSub(y, x))

\* sum(...) of Python: 0 plus the terms, left to right
RECURSIVE RatSum(_)
RatSum(s) == IF s = <<>> THEN RatZero ELSE RatAdd(RatSum(SubSeq(s, 1, Len(s) - 1)), s[Len(s)])

(***************************************************************************)
(* compute_zipf_C_opt                                                      *)
(***************************************************************************)
None == <<>>

Some(n) == <<n>>

Min(a, b) == IF a < b THEN a ELSE b

Max(a, b) == IF a > b THEN a ELSE b

\* Counter(words).items(): (word, count) pairs in order of first occurrence
Counter(ws) ==
    LET first  == {i \in 1..Len(ws) : \A j \in 1..(i - 1) : ws[j] # ws[i]}
        nth(k) == CHOOSE i \in first : Cardinality({j \in first : j < i}) = k - 1
    IN  [k \in 1..Cardinality(first) |->
            <<ws[nth(k)], Cardinality({j \in 1..Len(ws) : ws[j] = ws[nth(k)]})>>]

\* InsertDesc sorting by ascending count (reverse=True left out)
InsertAsc(s, x) ==
    LET k == Cardinality({i \in 1..Len(s) : s[i][2] <= x[2]})
    IN  SubSeq(s, 1, k) \o <<x>> \o SubSeq(s, k + 1, Len(s))

\* InsertDesc putting x before the elements of equal count (an unstable sort)
InsertDescBeforeEqual(s, x) ==
    LET k == Cardinality({i \in 1..Len(s) : s[i][2] > x[2]})
    IN  SubSeq(s, 1, k) \o <<x>> \o SubSeq(s, k + 1, Len(s))

\* the place of x in a list sorted by descending count: after every element
\* whose count is not smaller (stable)
InsertDesc(s, x) ==
    LET k == Cardinality({i \in 1..Len(s) : s[i][2] >= x[2]})
    IN  SubSeq(s, 1, k) \o <<x>> \o SubSeq(s, k + 1, Len(s))

\* sorted(items, key=lambda x: x[1], reverse=True): stable, descending count
RECURSIVE SortedByCountDesc(_)
SortedByCountDesc(s) ==
    IF s = <<>> THEN <<>>
    ELSE InsertDesc(SortedByCountDesc(SubSeq(s, 1, Len(s) - 1)), s[Len(s)])

\* SliceTo keeping one item too many: s[:n + 1]
SliceToOneMore(s, n) ==
    IF n + 1 >= 0 THEN SubSeq(s, 1, Min(n + 1, Len(s)))
    ELSE SubSeq(s, 1, Max(0, Len(s) + n + 1))

\* s[:n] of Python, n any integer
SliceTo(s, n) ==
    IF n >= 0 THEN SubSeq(s, 1, Min(n, Len(s)))
    ELSE SubSeq(s, 1, Max(0, Len(s) + n))

RankedItems(ws, n) ==
    LET items == SortedByCountDesc(Counter(ws))
    IN  IF n # None THEN SliceTo(items, n[1]) ELSE items

\* enumerate(items, start=1)
RanksOf(items) == [i \in 1..Len(items) |-> i]

FreqsExpOf(items) == [i \in 1..Len(items) |-> items[i][2]]

\* Numerator summing f instead of f / r
NumeratorNotDivided(freqs_exp, ranks) ==
    RatSum([i \in 1..Len(ranks) |-> RatOfInt(freqs_exp[i])])

Numerator(freqs_exp, ranks) ==
    RatSum([i \in 1..Len(ranks) |-> RatDiv(RatOfInt(freqs_exp[i]), RatOfInt(ranks[i]))])

\* Denominator summing 1 / r instead of 1 / (r * r)
DenominatorNotSquared(ranks) ==
    RatSum([i \in 1..Len(ranks) |-> RatDiv(RatOfInt(1), RatOfInt(ranks[i]))])

Denominator(ranks) ==
    RatSum([i \in 1..Len(ranks) |-> RatDiv(RatOfInt(1), RatOfInt(ranks[i] * ranks[i]))])

COpt(freqs_exp, ranks) ==
    IF ~RatIsZero(Denominator(ranks))
    THEN RatDiv(Numerator(freqs_exp, ranks), Denominator(ranks))
    ELSE RatZero

FreqsTheor(C_opt, ranks) == [i \in 1..Len(ranks) |-> RatDiv(C_opt, RatOfInt(ranks[i]))]

\* SqDiff without the square: fe - ft
SqDiffNotSquared(fe, ft) == RatSub(fe, ft)

\* (fe - ft) ** 2
SqDiff(fe, ft) == RatMul(RatSub(fe, ft), RatSub(fe, ft))

Sse(freqs_exp, freqs_theor) ==
    RatSum([i \in 1..Min(Len(freqs_exp), Len(freqs_theor)) |->
                SqDiff(RatOfInt(freqs_exp[i]), freqs_theor[i])])

\* f / r, 1 / (r * r) and C_opt / r raise ZeroDivisionError for a rank 0
ZeroDivision(ranks) == \E i \in 1..Len(ranks) : ranks[i] = 0

EmptyResult ==
    [C_opt |-> RatZero, ranks |-> <<>>, freqs_exp |-> <<>>,
     freqs_theor |-> <<>>, sse |-> RatZero, items |-> <<>>]

compute_zipf_C_opt(ws, n) ==
    LET items       == RankedItems(ws, n)
        ranks       == RanksOf(items)
        freqs_exp   == FreqsExpOf(items)
        C_opt       == COpt(freqs_exp, ranks)
        freqs_theor == FreqsTheor(C_opt, ranks)
    IN  IF ranks = <<>>
        THEN EmptyResult
        ELSE [C_opt |-> C_opt, ranks |-> ranks, freqs_exp |-> freqs_exp,
              freqs_theor |-> freqs_theor, sse |-> Sse(freqs_exp, freqs_theor),
              items |-> items]

\* whether the call raises instead of returning
compute_zipf_raises(ws, n) == ZeroDivision(RanksOf(RankedItems(ws, n)))

(***************************************************************************)
(* extract_words                                                           *)
(***************************************************************************)
\* str.lower() of one character.  Exact for the characters the model uses:
\* ASCII, U+00B2, U+0131, U+017F, the Cyrillic block U+0400..U+045F,
\* U+1C80..U+1C86, U+FEFF and U+FFFD, each of which lower-cases to one
\* character
Lower(c) ==
    IF c \in 65..90 THEN c + 32
    ELSE IF c \in 1040..1071 THEN c + 32
    ELSE IF c \in 1024..1039 THEN c + 80
    ELSE c

LowerText(t) == [i \in 1..Len(t) |-> Lower(t[i])]

\* the character class [а-яa-zё]
InWordClass(c) == c \in 1072..1103 \/ c \in 97..122 \/ c = 1105

\* lower-case characters outside the class that re.IGNORECASE makes equivalent
\* to a member of it: U+0131 (i), U+017F (s), U+1C80..U+1C86 (в д о с т т ъ)
IgnoreCaseEquivalent == {305, 383} \cup (7296..7302)

\* one character against WORD_RE, compiled with re.IGNORECASE
WORD_RE(c) == InWordClass(c) \/ InWordClass(Lower(c)) \/ c \in IgnoreCaseEquivalent

\* the maximal runs of the characters of t that match, left to right;
\* m[i] tells whether t[i] matches
MaximalRuns(t, m) ==
    LET starts   == {i \in 1..Len(t) : m[i] /\ (i = 1 \/ ~m[i - 1])}
        nth(k)   == CHOOSE s \in starts : Cardinality({j \in starts : j < s}) = k - 1
        endOf(s) == CHOOSE e \in s..Len(t) :
                        /\ \A j \in s..e : m[j]
                        /\ (e = Len(t) \/ ~m[e + 1])
    IN  [k \in 1..Cardinality(starts) |-> SubSeq(t, nth(k), endOf(nth(k)))]

\* WORD_RE.findall(t)
FindAll(t) == MaximalRuns(t, [i \in 1..Len(t) |-> WORD_RE(t[i])])

STOPWORDS_RU == {
    \* line 13: и а но или либо да то что чтоб чтобы
    <<1080>>,
    <<1072>>,
    <<1085, 1086>>,
    <<1080, 1083, 1080>>,
    <<1083, 1080, 1073, 1086>>,
    <<1076, 1072>>,
    <<1090, 1086>>,
    <<1095, 1090, 1086>>,
    <<1095, 1090, 1086, 1073>>,
    <<1095, 1090, 1086, 1073, 1099>>,
    \* line 14: как если когда хотя однако потому зато
    <<1082, 1072, 1082>>,
    <<1077, 1089, 1083, 1080>>,
    <<1082, 1086, 1075, 1076, 1072>>,
    <<1093, 1086, 1090, 1103>>,
    <<1086, 1076, 1085, 1072, 1082, 1086>>,
    <<1087, 1086, 1090, 1086, 1084, 1091>>,
    <<1079, 1072, 1090, 1086>>,
    \* line 16: тоесть тоесть таккак потомучто
    <<1090, 1086, 1077, 1089, 1090, 1100>>,
    <<1090, 1086, 1077, 1089, 1090, 1100>>,
    <<1090, 1072, 1082, 1082, 1072, 1082>>,
    <<1087, 1086, 1090, 1086, 1084, 1091, 1095, 1090, 1086>>,
    \* line 18: в во на с со к ко о об обо
    <<1074>>,
    <<1074, 1086>>,
    <<1085, 1072>>,
    <<1089>>,
    <<1089, 1086>>,
    <<1082>>,
    <<1082, 1086>>,
    <<1086>>,
    <<1086, 1073>>,
    <<1086, 1073, 1086>>,
    \* line 19: от до из изо перед передо за под подо
    <<1086, 1090>>,
    <<1076, 1086>>,
    <<1080, 1079>>,
    <<1080, 1079, 1086>>,
    <<1087, 1077, 1088, 1077, 1076>>,
    <<1087, 1077, 1088, 1077, 1076, 1086>>,
    <<1079, 1072>>,
    <<1087, 1086, 1076>>,
    <<1087, 1086, 1076, 1086>>,
    \* line 20: над надо при для через между по у без
    <<1085, 1072, 1076>>,
    <<1085, 1072, 1076, 1086>>,
    <<1087, 1088, 1080>>,
    <<1076, 1083, 1103>>,
    <<1095, 1077, 1088, 1077, 1079>>,
    <<1084, 1077, 1078, 1076, 1091>>,
    <<1087, 1086>>,
    <<1091>>,
    <<1073, 1077, 1079>>,
    \* line 21: около возле при напод про
    <<1086, 1082, 1086, 1083, 1086>>,
    <<1074, 1086, 1079, 1083, 1077>>,
    <<1087, 1088, 1080>>,
    <<1085, 1072, 1087, 1086, 1076>>,
    <<1087, 1088, 1086>>,
    \* line 23: же ли бы то вот
    <<1078, 1077>>,
    <<1083, 1080>>,
    <<1073, 1099>>,
    <<1090, 1086>>,
    <<1074, 1086, 1090>>
}

NotStopWord(w) == w \notin STOPWORDS_RU

\* extract_words without text.lower()
extract_words_not_lowered(t) == SelectSeq(FindAll(t), NotStopWord)

extract_words(t) == SelectSeq(FindAll(LowerText(t)), NotStopWord)

(***************************************************************************)
(* Inputs                                                                  *)
(***************************************************************************)
MaxWords == 4

MaxTopN == 3

MaxTextLen == 4

ScenarioTokens == 10

ScenarioTopN == 5

DefaultTopN == 200

SeqsUpTo(S, n) == UNION {[1..k -> S] : k \in 0..n}

Reverse(s) == [i \in 1..Len(s) |-> s[Len(s) + 1 - i]]

\* the t-th word of the token vocabulary: "a", "b", "c", ...
Token(t) == <<96 + t>>

\* "a", "b", "c"
Vocabulary == {Token(1), Token(2), Token(3)}

SmallWordSeqs == SeqsUpTo(Vocabulary, MaxWords)

TopNs == {None} \cup {Some(n) : n \in (-1)..MaxTopN}

\* ScenarioTokens distinct words with the pairwise different counts
\* 1, 2, ..., ScenarioTokens, in blocks of growing length; rot chooses which
\* word gets which count
ScenarioWords(rot) ==
    LET N        == ScenarioTokens
        block(i) == CHOOSE k \in 1..N : (k * (k - 1)) \div 2 < i /\ i <= (k * (k + 1)) \div 2
    IN  [i \in 1..((N * (N + 1)) \div 2) |-> Token(((block(i) - 1 + rot) % N) + 1)]

ScenarioSeqs ==
    {ScenarioWords(rot) : rot \in 0..2} \cup {Reverse(ScenarioWords(rot)) : rot \in 0..2}

\* К о И space ſ
TextAlphabet == {1050, 1086, 1048, 32, 383}

\* "кот кот собака кот собака и мышь"
ScenarioText ==
    <<1082, 1086, 1090, 32, 1082, 1086, 1090, 32, 1089, 1086, 1073, 1072, 1082, 1072, 32,
      1082, 1086, 1090, 32, 1089, 1086, 1073, 1072, 1082, 1072, 32, 1080, 32,
      1084, 1099, 1096, 1100>>

Texts == SeqsUpTo(TextAlphabet, MaxTextLen) \cup {ScenarioText}

NoRet == <<>>

(***************************************************************************)
(* The word pipeline as the steps of one document's analysis               *)
(***************************************************************************)
ExtractWords ==
    /\ pc = "text"
    /\ words' = extract_words(text)
    /\ pc' = "words"
    /\ UNCHANGED <<text, top_n, ret, argv, folder, files, paths, results, err>>

ComputeZipf ==
    /\ pc = "words"
    /\ IF compute_zipf_raises(words, top_n)
       THEN pc' = "raised" /\ err' = "ZeroDivisionError" /\ ret' = ret
       ELSE pc' = "returned" /\ err' = err /\ ret' = compute_zipf_C_opt(words, top_n)
    /\ UNCHANGED <<text, words, top_n, argv, folder, files, paths, results>>

Idle ==
    /\ argv = <<>> /\ folder = {} /\ files = <<>> /\ paths = <<>> /\ results = <<>>
    /\ err = "" /\ ret = NoRet

\* compute_zipf_C_opt called on a token sequence
InitZipf ==
    /\ pc = "words"
    /\ text = <<>>
    /\ \/ words \in SmallWordSeqs /\ top_n \in TopNs
       \/ words \in ScenarioSeqs /\ top_n = Some(ScenarioTopN)
    /\ Idle

NextZipf == ComputeZipf

SpecZipf == InitZipf /\ [][NextZipf]_vars

\* extract_words, then compute_zipf_C_opt, on a text
InitWords ==
    /\ pc = "text"
    /\ text \in Texts
    /\ words = <<>>
    /\ top_n \in {None, Some(DefaultTopN)}
    /\ Idle

NextWords == ExtractWords \/ ComputeZipf

SpecWords == InitWords /\ [][NextWords]_vars

(***************************************************************************)
(* The file system and the console, as main meets them                     *)
(***************************************************************************)
Decoded(t) == [ok |-> TRUE, text |-> t]

Undecodable == [ok |-> FALSE, text |-> <<>>]

\* "Кок кок ок", "ок и ок Кок", "и, о", "ок кок"
TextA == <<1050, 1086, 1082, 32, 1082, 1086, 1082, 32, 1086, 1082>>

TextB == <<1086, 1082, 32, 1080, 32, 1086, 1082, 32, 1050, 1086, 1082>>

TextC == <<1080, 44, 32, 1086>>

TextD == <<1086, 1082, 32, 1082, 1086, 1082>>

\* The regular files, each with what open(path, encoding=...).read() gives
\* under "utf-8", "utf-8-sig" and "cp1251" and with errors="replace":
\* a.txt is UTF-8; b.txt is cp1251; c.txt is UTF-8 with a byte order mark,
\* which "utf-8" decodes to U+FEFF; d.txt decodes under none of the three
\* and is read with errors="replace" (U+FFFD).  The cp1251 reading of a
\* UTF-8 file is some other text, which load_text never reaches.
Disk ==
    [p \in {"text/a.txt", "text/b.txt", "text/c.txt", "text/d.txt", "text/notes.md"} |->
        CASE p = "text/a.txt" ->
                 [utf8 |-> Decoded(TextA), utf8sig |-> Decoded(TextA),
                  cp1251 |-> Decoded(<<1056>> \o TextA), replaced |-> TextA]
          [] p = "text/b.txt" ->
                 [utf8 |-> Undecodable, utf8sig |-> Undecodable,
                  cp1251 |-> Decoded(TextB), replaced |-> <<65533>> \o TextB]
          [] p = "text/c.txt" ->
                 [utf8 |-> Decoded(<<65279>> \o TextC), utf8sig |-> Decoded(TextC),
                  cp1251 |-> Decoded(<<1087>> \o TextC), replaced |-> <<65279>> \o TextC]
          [] p = "text/d.txt" ->
                 [utf8 |-> Undecodable, utf8sig |-> Undecodable,
                  cp1251 |-> Undecodable, replaced |-> TextD \o <<65533>>]
          [] OTHER ->
                 [utf8 |-> Decoded(<<>>), utf8sig |-> Decoded(<<>>),
                  cp1251 |-> Decoded(<<>>), replaced |-> <<>>]]

\* os.path.isfile
IsFile(p) == p \in DOMAIN Disk

\* name.lower().endswith(".txt")
EndsWithTxt(p) == p \in {"text/a.txt", "text/b.txt", "text/c.txt", "text/d.txt"}

\* every path of the model, in the order of sorted()
PathOrder ==
    <<"text/a.txt", "text/b.txt", "text/c.txt", "text/d.txt", "text/missing.txt",
      "text/notes.md", "text/sub">>

\* os.path.basename
Basename ==
    [p \in {PathOrder[i] : i \in 1..Len(PathOrder)} |->
        CASE p = "text/a.txt" -> "a.txt"
          [] p = "text/b.txt" -> "b.txt"
          [] p = "text/c.txt" -> "c.txt"
          [] p = "text/d.txt" -> "d.txt"
          [] p = "text/missing.txt" -> "missing.txt"
          [] p = "text/notes.md" -> "notes.md"
          [] OTHER -> "sub"]

load_text(path) ==
    LET f == Disk[path]
    IN  IF f.utf8.ok THEN f.utf8.text
        ELSE IF f.utf8sig.ok THEN f.utf8sig.text
        ELSE IF f.cp1251.ok THEN f.cp1251.text
        ELSE f.replaced

InFolderTxtFile(p) == p \in folder /\ IsFile(p) /\ EndsWithTxt(p)

\* the .txt files of the folder, sorted; folder = {} also stands for a
\* folder that does not exist
list_text_files == SelectSeq(PathOrder, InFolderTxtFile)

IsSpace(c) == c = 32

NotSpace(c) == ~IsSpace(c)

\* str.strip()
Strip(s) ==
    LET keep == {i \in 1..Len(s) : NotSpace(s[i])}
    IN  IF keep = {} THEN <<>>
        ELSE SubSeq(s, CHOOSE i \in keep : \A j \in keep : i <= j,
                       CHOOSE i \in keep : \A j \in keep : i >= j)

\* str.split()
Split(s) == MaximalRuns(s, [i \in 1..Len(s) |-> NotSpace(s[i])])

\* a decimal digit 0-9
IsDecimal(c) == c \in 48..57

\* str.isdigit(): the decimal digits and, of the model's alphabet, the
\* superscript two U+00B2
IsDigit(s) == s # <<>> /\ \A i \in 1..Len(s) : IsDecimal(s[i]) \/ s[i] = 178

RECURSIVE DecimalValue(_)
DecimalValue(s) ==
    IF s = <<>> THEN 0 ELSE 10 * DecimalValue(SubSeq(s, 1, Len(s) - 1)) + (s[Len(s)] - 48)

HasSign(s) == s # <<>> /\ s[1] \in {43, 45}

Unsigned(s) == IF HasSign(s) THEN Tail(s) ELSE s

\* whether int(s) returns (otherwise it raises ValueError), for a stripped s
IntParses(s) == Unsigned(s) # <<>> /\ \A i \in 1..Len(Unsigned(s)) : IsDecimal(Unsigned(s)[i])

\* int(s)
IntOf(s) == IF HasSign(s) /\ s[1] = 45 THEN -DecimalValue(Unsigned(s)) ELSE DecimalValue(Unsigned(s))

\* the idxs of choose_files_interactively, for the parts that pass isdigit()
ValidIndexes(fs, parts) ==
    LET valid(part) == IsDigit(part) /\ DecimalValue(part) \in 1..Len(fs)
        kept        == SelectSeq(parts, valid)
    IN  [i \in 1..Len(kept) |-> DecimalValue(kept[i]) - 1]

\* the first occurrences of the indexes, as files
SelectedFiles(fs, idxs) ==
    LET first == SelectSeq([i \in 1..Len(idxs) |-> i],
                           LAMBDA i : \A j \in 1..(i - 1) : idxs[j] # idxs[i])
    IN  [k \in 1..Len(first) |-> fs[idxs[first[k]] + 1]]

\* whether int(part) raises for a part that passed isdigit()
choose_files_raises(raw) ==
    \E k \in 1..Len(Split(Strip(raw))) :
        IsDigit(Split(Strip(raw))[k]) /\ ~IntParses(Split(Strip(raw))[k])

choose_files_interactively(fs, raw) ==
    IF Strip(raw) = <<>> THEN <<>>
    ELSE SelectedFiles(fs, ValidIndexes(fs, Split(Strip(raw))))

MaxArgs == 2

MaxRawLen == 3

MaxCutoffLen == 2

\* what the user may type at "Выбор: ": 2 4 7 space a ²
RawInputs == SeqsUpTo({50, 52, 55, 32, 97, 178}, MaxRawLen)

\* what the user may type at the cutoff prompt: 0 1 - a space
CutoffInputs == SeqsUpTo({48, 49, 45, 97, 32}, MaxCutoffLen)

Argvs == SeqsUpTo({"text/a.txt", "text/c.txt", "text/missing.txt"}, MaxArgs)

Folders == {{}, {"text/a.txt", "text/b.txt", "text/c.txt", "text/d.txt", "text/notes.md", "text/sub"}}

(***************************************************************************)
(* main and compare_texts                                                  *)
(***************************************************************************)
Summary(path, ws, r) ==
    [path |-> path, name |-> Basename[path], C_opt |-> r.C_opt, sse |-> r.sse,
     ranks |-> r.ranks, freqs_exp |-> r.freqs_exp, freqs_theor |-> r.freqs_theor,
     total_words |-> Len(ws), unique_words |-> Cardinality({ws[i] : i \in 1..Len(ws)})]

\* main, with paths on the command line
MainArgs ==
    /\ pc = "main"
    /\ Len(argv) > 0
    /\ paths' = SelectSeq(argv, IsFile)
    /\ pc' = IF paths' = <<>> THEN "exit" ELSE "ask_top_n"
    /\ UNCHANGED <<text, words, top_n, ret, argv, folder, files, results, err>>

\* main, with no argument: the files of the folder text/
MainFolder ==
    /\ pc = "main"
    /\ Len(argv) = 0
    /\ files' = list_text_files
    /\ pc' = IF files' = <<>> THEN "exit" ELSE "choose"
    /\ UNCHANGED <<text, words, top_n, ret, argv, folder, paths, results, err>>

\* paths = choose_files_interactively(files), on the line the user types
ChooseFiles ==
    /\ pc = "choose"
    /\ \E raw \in RawInputs :
           IF choose_files_raises(raw)
           THEN pc' = "raised" /\ err' = "ValueError" /\ paths' = paths
           ELSE /\ paths' = choose_files_interactively(files, raw)
                /\ pc' = IF paths' = <<>> THEN "exit" ELSE "ask_top_n"
                /\ err' = err
    /\ UNCHANGED <<text, words, top_n, ret, argv, folder, files, results>>

\* top_n = int(top_n_str) if top_n_str else 200, on the line the user types
AskTopN ==
    /\ pc = "ask_top_n"
    /\ \E raw \in CutoffInputs :
           LET top_n_str == Strip(raw)
           IN  IF top_n_str = <<>>
               THEN pc' = "compare" /\ top_n' = Some(DefaultTopN) /\ err' = err
               ELSE IF IntParses(top_n_str)
               THEN pc' = "compare" /\ top_n' = Some(IntOf(top_n_str)) /\ err' = err
               ELSE pc' = "raised" /\ err' = "ValueError" /\ top_n' = top_n
    /\ UNCHANGED <<text, words, ret, argv, folder, files, paths, results>>

\* CompareStep counting the words of the earlier documents of the batch too
CompareStepAccumulating ==
    /\ pc = "compare"
    /\ Len(results) < Len(paths)
    /\ LET path == paths[Len(results) + 1]
       IN  /\ text' = load_text(path)
           /\ words' = words \o extract_words(text')
           /\ ret' = compute_zipf_C_opt(words', top_n)
           /\ results' = Append(results, Summary(path, words', ret'))
           /\ pc' = pc /\ err' = err
    /\ UNCHANGED <<top_n, argv, folder, files, paths>>

\* one iteration of compare_texts' loop: load_text, extract_words,
\* compute_zipf_C_opt, print_zipf_table (console output only), results.append
CompareStep ==
    /\ pc = "compare"
    /\ Len(results) < Len(paths)
    /\ LET path == paths[Len(results) + 1]
       IN  /\ text' = load_text(path)
           /\ words' = extract_words(text')
           /\ IF compute_zipf_raises(words', top_n)
              THEN pc' = "raised" /\ err' = "ZeroDivisionError" /\ ret' = ret
                   /\ results' = results
              ELSE /\ ret' = compute_zipf_C_opt(words', top_n)
                   /\ results' = Append(results, Summary(path, words', ret'))
                   /\ pc' = pc /\ err' = err
    /\ UNCHANGED <<top_n, argv, folder, files, paths>>

\* after the loop: the summary table, whose {top_n:>7} raises TypeError for
\* top_n = None once there is a row to print, and the return to main
CompareFinish ==
    /\ pc = "compare"
    /\ Len(results) = Len(paths)
    /\ IF top_n = None /\ results # <<>>
       THEN pc' = "raised" /\ err' = "TypeError"
       ELSE pc' = "plot" /\ err' = err
    /\ UNCHANGED <<text, words, top_n, ret, argv, folder, files, paths, results>>

\* plot_comparison(results), then main returns
Plot ==
    /\ pc = "plot"
    /\ pc' = "exit"
    /\ UNCHANGED <<text, words, top_n, ret, argv, folder, files, paths, results, err>>

Init ==
    /\ pc = "main"
    /\ argv \in Argvs
    /\ folder \in Folders
    /\ text = <<>> /\ words = <<>> /\ top_n = None /\ ret = NoRet
    /\ files = <<>> /\ paths = <<>> /\ results = <<>> /\ err = ""

Next == MainArgs \/ MainFolder \/ ChooseFiles \/ AskTopN \/ CompareStep \/ CompareFinish \/ Plot

Spec == Init /\ [][Next]_vars

(***************************************************************************)
(* Properties of compute_zipf_C_opt (SpecZipf)                             *)
(***************************************************************************)
Returned == pc = "returned"

WordSet(ws) == {ws[i] : i \in 1..Len(ws)}

CountIn(ws, w) == Cardinality({i \in 1..Len(ws) : ws[i] = w})

FirstIndex(ws, w) == CHOOSE i \in 1..Len(ws) : ws[i] = w /\ \A j \in 1..(i - 1) : ws[j] # w

NonNegOrNone(n) == n = None \/ n[1] >= 0

ExpectedK == IF top_n = None THEN Cardinality(WordSet(words))
             ELSE Min(top_n[1], Cardinality(WordSet(words)))

\* C1: for a top_n that is None or a non-negative integer, the returned ranks
\* are exactly 1, 2, ..., K with K = min(top_n, number of distinct tokens)
\* (all distinct tokens for None), and freqs_exp, freqs_theor and items have
\* length K.
C1_RanksContiguous ==
    (Returned /\ NonNegOrNone(top_n)) =>
        /\ ret.ranks = [i \in 1..ExpectedK |-> i]
        /\ Len(ret.freqs_exp) = ExpectedK
        /\ Len(ret.freqs_theor) = ExpectedK
        /\ Len(ret.items) = ExpectedK

C1_Witness ==
    /\ Returned
    /\ top_n = Some(2)
    /\ Cardinality(WordSet(words)) = 3
    /\ ret.ranks = <<1, 2>>

FreqOverRank(i) == <<BigOf(ret.freqs_exp[i]), <<>>, BigOf(ret.ranks[i])>>

OneOverRankSquared(i) == <<BigOf(1), <<>>, BigOf(ret.ranks[i] * ret.ranks[i])>>

\* C2: for a non-empty ranked sequence the returned C_opt satisfies the normal
\* equation: the sum of F_r / r equals C_opt times the sum of 1 / r^2.
C2_NormalEquation ==
    (Returned /\ ret.ranks # <<>>) =>
        RatEq(RatSum([i \in 1..Len(ret.ranks) |-> FreqOverRank(i)]),
              RatMul(ret.C_opt, RatSum([i \in 1..Len(ret.ranks) |-> OneOverRankSquared(i)])))

C2_Witness ==
    /\ Returned
    /\ ret.freqs_exp = <<2, 1, 1>>
    /\ ~RatIsZero(ret.C_opt)

EqualsTheoretical(i) ==
    RatEq(RatOfInt(ret.freqs_exp[i]), RatDiv(ret.C_opt, RatOfInt(ret.ranks[i])))

\* C3: the returned sse is >= 0, and it is 0 exactly when every empirical
\* frequency equals C_opt / rank (vacuously so for the empty result).
C3_SseNonNegZeroIff ==
    Returned =>
        /\ ~RatIsNeg(ret.sse)
        /\ RatIsZero(ret.sse) <=> \A i \in 1..Len(ret.freqs_exp) : EqualsTheoretical(i)

C3_Witness ==
    /\ Returned
    /\ Len(ret.ranks) >= 2
    /\ RatIsZero(ret.sse)
    /\ \A i \in 1..Len(ret.freqs_exp) : EqualsTheoretical(i)

Truncating == top_n # None /\ top_n[1] > 0 /\ top_n[1] < Cardinality(WordSet(words))

Retained == {ret.items[i][1] : i \in 1..Len(ret.items)}

\* C5: a positive top_n below the number of distinct tokens keeps exactly
\* top_n tokens, with their counts, in non-increasing order of count, each
\* counting at least as much as every dropped token; of ScenarioTokens tokens
\* with pairwise different counts and top_n = ScenarioTopN exactly the
\* ScenarioTopN most frequent ones are kept, at ranks 1..ScenarioTopN.
C5_Truncation ==
    (Returned /\ Truncating) =>
        /\ Len(ret.items) = top_n[1]
        /\ Cardinality(Retained) = top_n[1]
        /\ \A i \in 1..Len(ret.items) :
               /\ ret.items[i][1] \in WordSet(words)
               /\ ret.items[i][2] = CountIn(words, ret.items[i][1])
        /\ \A i \in 1..(Len(ret.items) - 1) : ret.items[i][2] >= ret.items[i + 1][2]
        /\ \A r \in Retained : \A w \in WordSet(words) \ Retained :
               CountIn(words, r) >= CountIn(words, w)
        /\ (words \in ScenarioSeqs /\ top_n = Some(ScenarioTopN)) =>
               /\ Retained = {w \in WordSet(words) :
                                 CountIn(words, w) > ScenarioTokens - ScenarioTopN}
               /\ ret.ranks = [i \in 1..ScenarioTopN |-> i]

C5_Witness ==
    /\ Returned
    /\ words \in ScenarioSeqs
    /\ top_n = Some(ScenarioTopN)
    /\ Cardinality(WordSet(words)) = ScenarioTokens
    /\ Len(ret.items) = ScenarioTopN

\* C10: tokens with equal counts are returned in the order of their first
\* occurrence in the token sequence, and of the tokens tied at the cutoff the
\* earliest-occurring ones are the ones retained.
C10_TiesInFirstOccurrenceOrder ==
    Returned =>
        /\ \A i, j \in 1..Len(ret.items) :
               (i < j /\ ret.items[i][2] = ret.items[j][2]) =>
                   FirstIndex(words, ret.items[i][1]) < FirstIndex(words, ret.items[j][1])
        /\ \A r \in Retained : \A w \in WordSet(words) \ Retained :
               CountIn(words, r) = CountIn(words, w) =>
                   FirstIndex(words, r) < FirstIndex(words, w)

C10_Witness ==
    /\ Returned
    /\ Truncating
    /\ \E r \in Retained : \E w \in WordSet(words) \ Retained :
           CountIn(words, r) = CountIn(words, w)
    /\ \E i, j \in 1..Len(ret.items) : i < j /\ ret.items[i][2] = ret.items[j][2]

(***************************************************************************)
(* Properties of extract_words followed by compute_zipf_C_opt (SpecWords)  *)
(***************************************************************************)
Extracted == pc \in {"words", "returned"}

\* a letter, among the characters of the model's alphabets: A-Z, a-z, the
\* Cyrillic block U+0400..U+045F, U+0131, U+017F, U+1C80..U+1C86
IsLetter(c) == c \in 65..90 \/ c \in 97..122 \/ c \in 1024..1119 \/ c \in IgnoreCaseEquivalent

OnlyStopWordsAndNonLetters(t) ==
    LET runs == MaximalRuns(t, [i \in 1..Len(t) |-> IsLetter(t[i])])
    IN  \A i \in 1..Len(runs) : LowerText(runs[i]) \in STOPWORDS_RU

\* C4: for a text made only of stop words (in any letter case) and non-letter
\* characters, extract_words returns the empty sequence and
\* compute_zipf_C_opt returns C_opt = 0, sse = 0 and empty ranks, frequencies
\* and items, and nothing is raised.
C4_OnlyStopWordsGiveEmptyResult ==
    OnlyStopWordsAndNonLetters(text) =>
        /\ pc # "raised" /\ err = ""
        /\ Extracted => words = <<>>
        /\ Returned =>
               /\ RatIsZero(ret.C_opt) /\ RatIsZero(ret.sse)
               /\ ret.ranks = <<>> /\ ret.freqs_exp = <<>>
               /\ ret.freqs_theor = <<>> /\ ret.items = <<>>

C4_Witness ==
    /\ Returned
    /\ OnlyStopWordsAndNonLetters(text)
    /\ Len(text) >= 3
    /\ \E i \in 1..Len(text) : text[i] = 1048
    /\ \E i \in 1..Len(text) : text[i] = 32
    /\ ret.items = <<>>

AllowedLetterRuns(t) == MaximalRuns(t, [i \in 1..Len(t) |-> InWordClass(t[i])])

\* C6: extract_words returns, in document order, exactly the maximal runs of
\* the letters a-z, а-я, ё of the lower-cased text that are not stop words;
\* every token is lower-case and none is a stop word.
C6_ExactlyTheAllowedLetterRuns ==
    Extracted =>
        /\ words = SelectSeq(AllowedLetterRuns(LowerText(text)), NotStopWord)
        /\ \A i \in 1..Len(words) :
               /\ words[i] \notin STOPWORDS_RU
               /\ \A j \in 1..Len(words[i]) : Lower(words[i][j]) = words[i][j]

\* x rounds to m / 1000: m / 1000 - 1 / 2000 <= x < m / 1000 + 1 / 2000
RoundsTo(x, m) ==
    /\ RatLeq(<<BigOf(2 * m - 1), <<>>, BigOf(2000)>>, x)
    /\ RatLess(x, <<BigOf(2 * m + 1), <<>>, BigOf(2000)>>)

Kot == <<1082, 1086, 1090>>

Sobaka == <<1089, 1086, 1073, 1072, 1082, 1072>>

Mysh == <<1084, 1099, 1096, 1100>>

ScenarioCounts ==
    /\ words = <<Kot, Kot, Sobaka, Kot, Sobaka, Mysh>>
    /\ ret.items = <<<<Kot, 3>>, <<Sobaka, 2>>, <<Mysh, 1>>>>
    /\ ret.ranks = <<1, 2, 3>>
    /\ ret.freqs_exp = <<3, 2, 1>>
    /\ Len(ret.freqs_theor) = 3

\* C7 as stated: the scenario text gives the tokens кот кот собака кот собака
\* мышь, the items кот=3, собака=2, мышь=1 at ranks 1, 2, 3, C* = 3.186 to
\* three decimals, theoretical frequencies 3.186, 1.593, 1.062 and SSE = 0.204.
C7_ScenarioAsStated ==
    (Returned /\ text = ScenarioText) =>
        /\ ScenarioCounts
        /\ RoundsTo(ret.C_opt, 3186)
        /\ RoundsTo(ret.freqs_theor[1], 3186)
        /\ RoundsTo(ret.freqs_theor[2], 1593)
        /\ RoundsTo(ret.freqs_theor[3], 1062)
        /\ RoundsTo(ret.sse, 204)

\* C7: the scenario text gives the tokens кот кот собака кот собака мышь, the
\* items кот=3, собака=2, мышь=1 at ranks 1, 2, 3, C* = 156/49 = 3.184 to
\* three decimals, theoretical frequencies 3.184, 1.592, 1.061 and SSE = 0.204.
C7_Scenario ==
    (Returned /\ text = ScenarioText) =>
        /\ ScenarioCounts
        /\ RatEq(ret.C_opt, <<BigOf(156), <<>>, BigOf(49)>>)
        /\ RoundsTo(ret.C_opt, 3184)
        /\ RoundsTo(ret.freqs_theor[1], 3184)
        /\ RoundsTo(ret.freqs_theor[2], 1592)
        /\ RoundsTo(ret.freqs_theor[3], 1061)
        /\ RoundsTo(ret.sse, 204)

C7_Witness ==
    /\ Returned
    /\ text = ScenarioText
    /\ top_n = Some(DefaultTopN)
    /\ Len(words) = 6
    /\ Len(ret.items) = 3

(***************************************************************************)
(* Properties of main and compare_texts (Spec)                             *)
(***************************************************************************)
\* C8: whatever is typed at the two prompts, the program does not raise, the
\* selected paths are files of the listing, and compare_texts runs only with
\* a top_n that is a non-negative integer (or no limit).
C8_InvalidSelectionNeverReachesCore ==
    /\ pc # "raised" /\ err = ""
    /\ \A i \in 1..Len(paths) : IsFile(paths[i])
    /\ pc \in {"compare", "plot"} => NonNegOrNone(top_n)

OwnWords(path) == extract_words(load_text(path))

\* C9: compare_texts builds one summary per path, in the order of the paths,
\* and each summary is what that document's own text and the shared top_n
\* give, whatever the other documents of the batch and its position are.
C9_OneSummaryPerPathInOrder ==
    /\ Len(results) <= Len(paths)
    /\ pc \in {"plot", "exit"} => Len(results) = Len(paths)
    /\ \A i \in 1..Len(results) :
           LET own == compute_zipf_C_opt(OwnWords(paths[i]), top_n)
           IN  /\ results[i].path = paths[i]
               /\ results[i].name = Basename[paths[i]]
               /\ results[i].total_words = Len(OwnWords(paths[i]))
               /\ results[i].unique_words = Cardinality(WordSet(OwnWords(paths[i])))
               /\ results[i].C_opt = own.C_opt
               /\ results[i].sse = own.sse
               /\ results[i].ranks = own.ranks
               /\ results[i].freqs_exp = own.freqs_exp
               /\ results[i].freqs_theor = own.freqs_theor

C9_Witness ==
    /\ pc = "plot"
    /\ Len(paths) = 2
    /\ Len(results) = 2
    /\ results[1].path # results[2].path
    /\ results[1].total_words # results[2].total_words
    /\ results[2].ranks # <<>>

=============================================================================
